---- MODULE Spec2Model ----
(***************************************************************************)
(* A model of lsst.meas.algorithms.dynamicDetection: DynamicDetectionTask  *)
(* (calculateThreshold, detectFootprints, tweakBackground), and of         *)
(* process_one of bin.src/convert_refcat_to_nJy.py.                        *)
(*                                                                         *)
(* Floating-point values are modelled as extended rationals <<n, d>>:      *)
(* d > 0 is the finite number n/d in lowest terms, <<0,0>> is NaN,         *)
(* <<1,0>> is +inf and <<-1,0>> is -inf.  Arithmetic follows IEEE-754      *)
(* for the special values (numpy warns, it does not raise).  The           *)
(* statistics are exact; a value stored in a pixel is rounded to the       *)
(* significand of the pixel type (Float32).                                *)
(***************************************************************************)
EXTENDS Integers, Sequences, FiniteSets, TLC

(***************************************************************************)
(* Bounds of the model.                                                    *)
(***************************************************************************)
\* number of pixels of the exposure (each pixel is also a candidate sky position)
NPix == 3

\* largest value of the minNumSources option
MaxMinNumSources == 2

Pixels == 1..NPix

(***************************************************************************)
(* Extended rationals.                                                     *)
(***************************************************************************)
NaN == <<0, 0>>
PInf == <<1, 0>>
NInf == <<-1, 0>>

Abs(n) == IF n < 0 THEN -n ELSE n

Sign(n) == IF n < 0 THEN -1 ELSE IF n > 0 THEN 1 ELSE 0

RECURSIVE GCD(_, _)
GCD(a, b) == IF b = 0 THEN a ELSE GCD(b, a % b)

\* the finite number n/d (d # 0) in lowest terms with a positive denominator
Norm(n, d) ==
    LET g == GCD(Abs(n), Abs(d))
        s == IF d < 0 THEN -1 ELSE 1
    IN  <<(s * n) \div g, (s * d) \div g>>

R(n) == <<n, 1>>

\* np.isfinite
IsFinite(x) == x[2] # 0

IsNaN(x) == x = NaN

IsZero(x) == x[2] # 0 /\ x[1] = 0

Neg(x) == <<-x[1], x[2]>>

Add(x, y) ==
    IF IsNaN(x) \/ IsNaN(y) THEN NaN
    ELSE IF ~IsFinite(x) /\ ~IsFinite(y) THEN (IF x = y THEN x ELSE NaN)
    ELSE IF ~IsFinite(x) THEN x
    ELSE IF ~IsFinite(y) THEN y
    ELSE Norm(x[1] * y[2] + y[1] * x[2], x[2] * y[2])

Sub(x, y) == Add(x, Neg(y))

Mul(x, y) ==
    IF IsNaN(x) \/ IsNaN(y) THEN NaN
    ELSE IF ~IsFinite(x) \/ ~IsFinite(y)
         THEN (IF IsZero(x) \/ IsZero(y) THEN NaN ELSE <<Sign(x[1]) * Sign(y[1]), 0>>)
    ELSE Norm(x[1] * y[1], x[2] * y[2])

\* numpy float64 division: x/0 is +-inf, 0/0 is nan, no exception
Div(x, y) ==
    IF IsNaN(x) \/ IsNaN(y) THEN NaN
    ELSE IF ~IsFinite(x) /\ ~IsFinite(y) THEN NaN
    ELSE IF ~IsFinite(x) THEN <<Sign(x[1]) * (IF y[1] < 0 THEN -1 ELSE 1), 0>>
    ELSE IF ~IsFinite(y) THEN R(0)
    ELSE IF y[1] = 0 THEN (IF x[1] = 0 THEN NaN ELSE <<Sign(x[1]), 0>>)
    ELSE Norm(x[1] * y[2], x[2] * y[1])

\* x < y for values that are not NaN
Less(x, y) ==
    IF IsFinite(x) /\ IsFinite(y) THEN x[1] * y[2] < y[1] * x[2]
    ELSE (x = NInf /\ y # NInf) \/ (y = PInf /\ x # PInf)

Leq(x, y) == x = y \/ Less(x, y)

(***************************************************************************)
(* numpy reductions over a sequence of values.                             *)
(***************************************************************************)
RECURSIVE Insert(_, _)
Insert(v, s) ==
    IF s = <<>> THEN <<v>>
    ELSE IF Leq(v, Head(s)) THEN <<v>> \o s
    ELSE <<Head(s)>> \o Insert(v, Tail(s))

RECURSIVE Sorted(_)
Sorted(s) == IF s = <<>> THEN <<>> ELSE Insert(Head(s), Sorted(Tail(s)))

HasNaN(s) == \E i \in 1..Len(s) : IsNaN(s[i])

\* np.median: NaN for an empty array or one holding a NaN, else the middle
\* value of the sorted array (the mean of the two middle values)
Median(s) ==
    IF s = <<>> \/ HasNaN(s) THEN NaN
    ELSE LET a == Sorted(s)
             n == Len(a)
         IN  IF n % 2 = 1 THEN a[(n + 1) \div 2]
             ELSE Div(Add(a[n \div 2], a[n \div 2 + 1]), R(2))

\* np.percentile(s, q) of a non-empty array, q a multiple of 25 (linear
\* interpolation between the two nearest ranks)
Percentile(s, q) ==
    IF HasNaN(s) THEN NaN
    ELSE LET a == Sorted(s)
             n == Len(a)
             k == (q \div 25) * (n - 1)
             lo == k \div 4 + 1
             fr == k % 4
         IN  IF fr = 0 THEN a[lo]
             ELSE Add(a[lo], Mul(<<fr, 4>>, Sub(a[lo + 1], a[lo])))

(***************************************************************************)
(* The exposure and the task configuration.                                *)
(***************************************************************************)
\* mask planes of the model; "DETECTED" and "DETECTED_NEGATIVE" are the
\* detection planes, "BAD" stands for every other plane
DetectionPlanes == {"DETECTED", "DETECTED_NEGATIVE"}

Planes == DetectionPlanes \cup {"BAD"}

\* DynamicDetectionConfig.prelimThresholdFactor (default)
prelimThresholdFactor == <<1, 2>>

\* SourceDetectionConfig.thresholdValue (default)
thresholdValue == 5

\* DynamicDetectionConfig.setDefaults: skyObjects.nSources
nSources == 1000

\* DynamicDetectionConfig.minNumSources (default)
minNumSourcesDefault == 10

\* expId=None
NoExpId == <<>>

VARIABLES
    pc,            \* phase of detectFootprints the call is in
    run,           \* 1 for the first call on the exposure, 2 for the second
    config,        \* [doBackgroundTweak, minNumSources, reEstimateBackground,
                   \*  thresholdPolarity]
    args,          \* [clearMask, expId] of the call
    image,         \* exposure.image: pixel -> value
    mask,          \* exposure.mask: pixel -> set of planes
    sky,           \* what forced photometry finds at each pixel (the scene)
    seed,          \* local seed
    originalMask,  \* local originalMask
    skyMask,       \* the mask skyObjects.run was given
    positions,     \* the sky positions sampled (sequence of pixels)
    catalog,       \* the forced-photometry catalog (sequence of records)
    warned,        \* log.warn was called by calculateThreshold
    factor,        \* local factor (threshResults.multiplicative)
    bgLevel,       \* local bgLevel (threshResults.additive)
    background,    \* local background (BackgroundList): sequence of terms
    results,       \* results of the final pass
    error,         \* the exception that reached the caller ("" if none)
    entryImage,    \* the image when the call was entered
    entryMask,     \* the mask when the call was entered
    first,         \* what the first call observed, kept for the second
    tweak,         \* a caller's direct calls of tweakBackground
    file,          \* convert_refcat_to_nJy: the catalog file on disk
    conv           \* convert_refcat_to_nJy: the state of process_one

vars == <<pc, run, config, args, image, mask, sky, seed, originalMask, skyMask,
          positions, catalog, warned, factor, bgLevel, background, results,
          error, entryImage, entryMask, first, tweak, file, conv>>

\* the state detectFootprints does not touch
callerVars == <<tweak, file, conv>>

\* the state of the detection task, which the conversion script does not touch
taskVars == <<pc, run, config, args, image, mask, sky, seed, originalMask,
              skyMask, positions, catalog, warned, factor, bgLevel, background,
              results, error, entryImage, entryMask, first, tweak>>

(***************************************************************************)
(* DynamicDetectionTask.calculateThreshold: the statistics.                *)
(***************************************************************************)
Column(cat, f) == [i \in 1..Len(cat) |-> cat[i][f]]

\* fluxes/area and fluxes - bg*area, computed over the whole catalog
FluxOverArea(cat) == [i \in 1..Len(cat) |-> Div(cat[i].instFlux, cat[i].area)]

BgSubtracted(cat) ==
    [i \in 1..Len(cat) |-> Sub(cat[i].instFlux, Mul(cat[i].localBg, cat[i].area))]

\* a filter that forgets the PSF-flux flag
Good_IgnoringPsfFlag(cat) ==
    [i \in 1..Len(cat) |->
        /\ ~cat[i].bgFlag
        /\ IsFinite(cat[i].instFlux)
        /\ IsFinite(cat[i].area)
        /\ IsFinite(cat[i].localBg)]

\* the boolean array good
Good(cat) ==
    [i \in 1..Len(cat) |->
        /\ ~cat[i].psfFlag
        /\ ~cat[i].bgFlag
        /\ IsFinite(cat[i].instFlux)
        /\ IsFinite(cat[i].area)
        /\ IsFinite(cat[i].localBg)]

\* good.sum()
GoodCount(cat) == Cardinality({i \in 1..Len(cat) : Good(cat)[i]})

\* boolean-array indexing: column[good]
RECURSIVE Select(_, _)
Select(col, good) ==
    IF col = <<>> THEN <<>>
    ELSE (IF Head(good) THEN <<Head(col)>> ELSE <<>>) \o Select(Tail(col), Tail(good))

\* np.median((fluxes/area)[good])
BgMedian(cat, good) == Median(Select(FluxOverArea(cat), good))

\* a spread with the quartiles swapped
StdevMeas_Swapped(lq, uq) == Mul(<<741, 1000>>, Sub(lq, uq))

\* 0.741*(uq - lq)
StdevMeas(lq, uq) == Mul(<<741, 1000>>, Sub(uq, lq))

\* a median error taken over the whole catalog
MedianError_Unfiltered(cat, good) == Median(Column(cat, "instFluxErr"))

\* np.median(catalog["base_PsfFlux_instFluxErr"][good])
MedianError(cat, good) == Median(Select(Column(cat, "instFluxErr"), good))

\* The outcomes of the statistics part of calculateThreshold.  np.percentile
\* of an empty array raises IndexError in some numpy releases and returns
\* nan in others: both outcomes are possible.
ThresholdOutcomes(cat, minNumSources) ==
    LET good == Good(cat)
    IN  IF GoodCount(cat) < minNumSources
        THEN {[raised |-> "", warned |-> TRUE, multiplicative |-> R(1), additive |-> R(0)]}
        ELSE LET bgMedian == BgMedian(cat, good)
                 sub == Select(BgSubtracted(cat), good)
                 lq == IF sub = <<>> THEN NaN ELSE Percentile(sub, 25)
                 uq == IF sub = <<>> THEN NaN ELSE Percentile(sub, 75)
                 stdevMeas == StdevMeas(lq, uq)
                 medianError == MedianError(cat, good)
                 computed == [raised |-> "", warned |-> FALSE,
                              multiplicative |-> Div(medianError, stdevMeas),
                              additive |-> bgMedian]
             IN  IF sub = <<>>
                 THEN {computed, [computed EXCEPT !.raised = "IndexError"]}
                 ELSE {computed}

(***************************************************************************)
(* Collaborators of the task whose code is outside the modelled files.     *)
(***************************************************************************)
\* the planes a sky object must avoid
AvoidPlanes == Planes

RECURSIVE Ascending(_)
Ascending(S) ==
    IF S = {} THEN <<>>
    ELSE LET m == CHOOSE x \in S : \A y \in S : x <= y
         IN  <<m>> \o Ascending(S \ {m})

\* SkyObjectsTask.run(mask, seed): up to nSources positions on pixels that
\* carry none of the planes to avoid, in an order fixed by the seed
SkyObjects(m, sd) ==
    LET free == Ascending({p \in Pixels : m[p] \cap AvoidPlanes = {}})
        n == Len(free)
        all == [i \in 1..n |-> free[((i - 1 + (sd % n)) % n) + 1]]
    IN  IF n <= nSources THEN all ELSE SubSeq(all, 1, nSources)

\* ForcedMeasurementTask.run at pixel p: the PSF flux and the local background
\* follow the image level linearly; sky[p] is the measurement on a zero image
ForcedMeasure(img, scene, p) ==
    [instFlux    |-> Add(scene[p].flux, Mul(img[p], scene[p].area)),
     area        |-> scene[p].area,
     localBg     |-> Add(scene[p].bg, img[p]),
     instFluxErr |-> scene[p].err,
     psfFlag     |-> scene[p].psfFlag,
     bgFlag      |-> scene[p].bgFlag]

\* applyThreshold looks for footprints of a polarity when it is wanted
\* (thresholdPolarity) or when the background is to be re-estimated
WantPositive == config.reEstimateBackground \/ config.thresholdPolarity # "negative"

WantNegative == config.reEstimateBackground \/ config.thresholdPolarity # "positive"

\* convolveImage + applyThreshold: the pixels at or beyond the threshold
\* thresholdValue*f, of each polarity looked for
Detect(img, f) ==
    LET t == Mul(R(thresholdValue), f)
    IN  [positive |-> {p \in Pixels : WantPositive /\ ~IsNaN(t) /\ ~IsNaN(img[p])
                                         /\ Leq(t, img[p])},
         negative |-> {p \in Pixels : WantNegative /\ ~IsNaN(t) /\ ~IsNaN(img[p])
                                         /\ Leq(img[p], Neg(t))}]

\* SourceDetectionTask.clearMask: clears DETECTED and DETECTED_NEGATIVE
ClearMask(m) == [p \in Pixels |-> m[p] \ DetectionPlanes]

\* finalizeFootprints: sets the detection planes from the footprints
FinalizeFootprints(m, fp) ==
    [p \in Pixels |-> m[p] \cup (IF p \in fp.positive THEN {"DETECTED"} ELSE {})
                           \cup (IF p \in fp.negative THEN {"DETECTED_NEGATIVE"} ELSE {})]

\* the detection planes clearUnwantedResults clears: that of the polarity
\* not asked for, when footprints of it were made for the background
UnwantedPlanes ==
    IF ~config.reEstimateBackground THEN {}
    ELSE IF config.thresholdPolarity = "positive" THEN {"DETECTED_NEGATIVE"}
    ELSE IF config.thresholdPolarity = "negative" THEN {"DETECTED"}
    ELSE {}

\* clearUnwantedResults(mask, results), on the mask
ClearUnwantedResults(m) == [p \in Pixels |-> m[p] \ UnwantedPlanes]

\* clearUnwantedResults(mask, results), on the results: the footprints of a
\* polarity not asked for are dropped
WantedResults(fp) ==
    [positive |-> IF config.thresholdPolarity = "negative" THEN {} ELSE fp.positive,
     negative |-> IF config.thresholdPolarity = "positive" THEN {} ELSE fp.negative]

\* reEstimateBackground: the level fitted to the pixels left undetected
ReEstimatedLevel(img, m) ==
    LET bgPix == Ascending({p \in Pixels : m[p] \cap DetectionPlanes = {}})
    IN  IF bgPix = <<>> THEN R(0) ELSE Median([i \in 1..Len(bgPix) |-> img[bgPix[i]]])

(***************************************************************************)
(* detectFootprints: the seed.                                             *)
(***************************************************************************)
\* 2**31 - 1
SeedModulus == 2147483647

\* a reduction modulo 2**31 instead
PyMod_PowerOfTwo(x) == x[2]

\* Python integers are unbounded; an expId is held as <<hi, lo>>, the
\* integer hi*2^31 + lo with 0 <= lo < 2^31.
\* x % (2**31 - 1) of such an integer: 2^31 = 1 (mod 2^31 - 1)
PyMod(x) ==
    LET t == x[1] % SeedModulus
        lo == x[2]
    IN  IF lo >= SeedModulus - t THEN lo - (SeedModulus - t) ELSE lo + t

\* int(x) of a finite float: truncation toward zero
PyInt(x) == IF x[1] >= 0 THEN x[1] \div x[2] ELSE -((-x[1]) \div x[2])

\* a small integer as <<hi, lo>>
Big(n) == IF n >= 0 THEN <<0, n>> ELSE <<-1, SeedModulus + (n + 1)>>

RECURSIVE SumOver(_, _)
SumOver(img, n) == IF n = 0 THEN R(0) ELSE Add(SumOver(img, n - 1), img[n])

\* maskedImage.image.array.sum()
ImageSum(img) == SumOver(img, NPix)

\* (expId if expId is not None else int(sum)) % (2**31 - 1); int() of a
\* non-finite sum raises
SeedRaises(expId, img) == expId = NoExpId /\ ~IsFinite(ImageSum(img))

\* a seed that ignores expId
Seed_FromPixels(expId, img) == PyMod(Big(PyInt(ImageSum(img))))

Seed(expId, img) ==
    PyMod(IF expId # NoExpId THEN expId ELSE Big(PyInt(ImageSum(img))))

(***************************************************************************)
(* tweakBackground.                                                        *)
(***************************************************************************)
\* significand width of the image's pixel type (ImageF: IEEE single)
PixelBits == 24

RECURSIVE BitLen(_)
\* number of binary digits of n >= 0
BitLen(n) == IF n = 0 THEN 0 ELSE 1 + BitLen(n \div 2)

RECURSIVE Pow2(_)
Pow2(k) == IF k = 0 THEN 1 ELSE 2 * Pow2(k - 1)

IsPow2(d) == d = Pow2(BitLen(d) - 1)

\* n >= 0 rounded to the nearest multiple of m, ties to the even multiple
RoundToEven(n, m) ==
    LET q == n \div m
        r == n % m
    IN  IF 2 * r < m \/ (2 * r = m /\ q % 2 = 0) THEN q * m ELSE (q + 1) * m

\* x stored in a pixel: rounded to PixelBits significant binary digits.  The
\* pixel values and levels of this model are binary fractions; a value that
\* is not one is left as it is.
Float32(x) ==
    IF x[2] = 0 \/ ~IsPow2(x[2]) THEN x
    ELSE LET a == Abs(x[1])
             k == BitLen(a) - PixelBits
         IN  IF k <= 0 THEN x
             ELSE Norm(Sign(x[1]) * RoundToEven(a, Pow2(k)), x[2])

\* a subtraction that does not let a pixel go below zero
SubtractLevel_Clipped(img, level) ==
    [p \in Pixels |->
        LET v == Float32(Sub(img[p], Float32(level)))
        IN  IF Less(v, R(0)) THEN R(0) ELSE v]

\* exposure.image -= bgLevel, in the pixel type
SubtractLevel(img, level) ==
    [p \in Pixels |-> Float32(Sub(img[p], Float32(level)))]

\* bgData: the constant background model and its interpolation metadata
BgData(level) ==
    [value |-> level, interp |-> "LINEAR", undersample |-> "REDUCE_INTERP_ORDER",
     approx |-> "UNKNOWN"]

\* a tweakBackground that forgets to append the model to the list
TweakBackground_NoAppend(img, level, bgList, hasList) ==
    [image  |-> SubtractLevel(img, level),
     bgList |-> bgList,
     bg     |-> BgData(level)]

\* tweakBackground(exposure, bgLevel, bgList): the image, the list and the
\* returned model afterwards; hasList is "bgList is not None"
TweakBackground(img, level, bgList, hasList) ==
    [image  |-> SubtractLevel(img, level),
     bgList |-> IF hasList THEN Append(bgList, BgData(level)) ELSE bgList,
     bg     |-> BgData(level)]

(***************************************************************************)
(* detectFootprints, one action per phase.                                 *)
(***************************************************************************)
\* a local that is not bound yet
Unset == <<>>

NoMask == [p \in Pixels |-> {"UNSET"}]

NoResults == [positive |-> {}, negative |-> {}, factor |-> Unset]

\* no exception, and an exception raised by a call made in a phase
NoError == [phase |-> "", call |-> ""]

\* an except clause that swallows the exception
Raised_Swallowed(phase, call) == NoError

Raised(phase, call) == [phase |-> phase, call |-> call]

\* a finally clause that leaves the mask as the preliminary pass left it
RestoreMask_Keep(current, snapshot) == current

\* maskedImage.mask.array[:] = originalMask
RestoreMask(current, snapshot) == snapshot

\* a preliminary pass that does not clear the detection planes first
PreliminaryMask_NoClear(m, img) ==
    FinalizeFootprints(m, Detect(img, prelimThresholdFactor))

\* lines 201-204: the mask after clearMask and the preliminary footprints
PreliminaryMask(m, img) ==
    FinalizeFootprints(ClearMask(m), Detect(img, prelimThresholdFactor))

\* lines 188-199: psf, seed and the snapshot of the mask
Start ==
    /\ pc = "Idle"
    /\ \E fail \in {"", "getPsf"} :
        IF fail # "" \/ SeedRaises(args.expId, image)
        THEN /\ pc' = "Failed"
             /\ error' = Raised("setup", IF fail # "" THEN fail ELSE "int")
             /\ UNCHANGED <<seed, originalMask>>
        ELSE /\ pc' = "PreliminaryDetect"
             /\ seed' = Seed(args.expId, image)
             /\ originalMask' = mask
             /\ error' = NoError
    /\ entryImage' = image
    /\ entryMask' = mask
    /\ skyMask' = NoMask
    /\ positions' = <<>>
    /\ catalog' = <<>>
    /\ warned' = FALSE
    /\ factor' = Unset
    /\ bgLevel' = Unset
    /\ background' = <<>>
    /\ results' = NoResults
    /\ UNCHANGED <<run, config, args, image, mask, sky, first>>
    /\ UNCHANGED callerVars

\* lines 201-204 inside the try block; a raise runs the finally clause
PreliminaryDetect ==
    /\ pc = "PreliminaryDetect"
    /\ \E fail \in {"", "clearMask", "convolveImage", "applyThreshold", "finalizeFootprints"} :
        LET cleared == ClearMask(mask)
            done == PreliminaryMask(mask, image)
        IN  IF fail = ""
            THEN /\ mask' = done
                 /\ pc' = "Sampling"
                 /\ error' = NoError
            ELSE /\ mask' = RestoreMask(IF fail = "clearMask" THEN mask
                                        ELSE IF fail = "finalizeFootprints" THEN done
                                        ELSE cleared, originalMask)
                 /\ pc' = "Failed"
                 /\ error' = Raised("preliminary", fail)
    /\ UNCHANGED <<run, config, args, image, sky, seed, originalMask, skyMask,
                   positions, catalog, warned, factor, bgLevel, background,
                   results, entryImage, entryMask, first>>
    /\ UNCHANGED callerVars

\* calculateThreshold, lines 102-105: the sky objects
Sampling ==
    /\ pc = "Sampling"
    /\ skyMask' = mask
    /\ \E fail \in {"", "skyObjects"} :
        IF fail = ""
        THEN /\ positions' = SkyObjects(mask, seed)
             /\ pc' = "Measuring"
             /\ error' = NoError
             /\ mask' = mask
        ELSE /\ positions' = positions
             /\ pc' = "Failed"
             /\ error' = Raised("preliminary", fail)
             /\ mask' = RestoreMask(mask, originalMask)
    /\ UNCHANGED <<run, config, args, image, sky, seed, originalMask,
                   catalog, warned, factor, bgLevel, background,
                   results, entryImage, entryMask, first>>
    /\ UNCHANGED callerVars

\* calculateThreshold, lines 106-118: the catalog and the forced photometry
Measuring ==
    /\ pc = "Measuring"
    /\ \E fail \in {"", "skyMeasurement"} :
        IF fail = ""
        THEN /\ catalog' = [i \in 1..Len(positions) |-> ForcedMeasure(image, sky, positions[i])]
             /\ pc' = "Estimating"
             /\ error' = NoError
             /\ mask' = mask
        ELSE /\ catalog' = catalog
             /\ pc' = "Failed"
             /\ error' = Raised("preliminary", fail)
             /\ mask' = RestoreMask(mask, originalMask)
    /\ UNCHANGED <<run, config, args, image, sky, seed, originalMask, skyMask,
                   positions, warned, factor, bgLevel, background,
                   results, entryImage, entryMask, first>>
    /\ UNCHANGED callerVars

\* calculateThreshold, lines 120-138, then lines 207-213: the correction is
\* bound to bgLevel and factor and the finally clause restores the mask
Estimating ==
    /\ pc = "Estimating"
    /\ \E out \in ThresholdOutcomes(catalog, config.minNumSources) :
        /\ warned' = out.warned
        /\ IF out.raised = ""
           THEN /\ bgLevel' = out.additive
                /\ factor' = out.multiplicative
                /\ pc' = "BackgroundTweak"
                /\ error' = NoError
           ELSE /\ UNCHANGED <<bgLevel, factor>>
                /\ pc' = "Failed"
                /\ error' = Raised("preliminary", out.raised)
    /\ mask' = RestoreMask(mask, originalMask)
    /\ UNCHANGED <<run, config, args, image, sky, seed, originalMask, skyMask,
                   positions, catalog, background, results, entryImage,
                   entryMask, first>>
    /\ UNCHANGED callerVars

\* lines 215-217
BackgroundTweak ==
    /\ pc = "BackgroundTweak"
    /\ IF config.doBackgroundTweak
       THEN LET t == TweakBackground(image, bgLevel, <<>>, TRUE)
            IN  /\ image' = t.image
                /\ background' = t.bgList
       ELSE /\ image' = image
            /\ background' = <<>>
    /\ pc' = "FinalDetect"
    /\ UNCHANGED <<run, config, args, mask, sky, seed, originalMask, skyMask,
                   positions, catalog, warned, factor, bgLevel, results, error,
                   entryImage, entryMask, first>>
    /\ UNCHANGED callerVars

\* a final pass that clears the detection planes whatever clearMask says
FinalEntryMask_AlwaysClear(m, clear) == ClearMask(m)

\* lines 219-223: the mask the final pass starts from
FinalEntryMask(m, clear) == IF clear THEN ClearMask(m) ELSE m

\* lines 219-237: the final pass at thresholdValue*factor.  The temporary
\* wide background is put back on leaving its context and the temporary
\* local background works on the convolved copy: neither changes the exposure.
FinalDetect ==
    /\ pc = "FinalDetect"
    /\ \E fail \in {"", "convolveImage", "applyThreshold", "finalizeFootprints"} :
        LET cleared == FinalEntryMask(mask, args.clearMask)
            fp == Detect(image, factor)
            done == FinalizeFootprints(cleared, fp)
        IN  IF fail = ""
            THEN /\ mask' = ClearUnwantedResults(done)
                 /\ results' = [positive |-> WantedResults(fp).positive,
                                negative |-> WantedResults(fp).negative,
                                factor |-> factor]
                 /\ pc' = "ReEstimate"
                 /\ error' = NoError
            ELSE /\ mask' = (IF fail = "finalizeFootprints" THEN done ELSE cleared)
                 /\ results' = results
                 /\ pc' = "Failed"
                 /\ error' = Raised("final", fail)
    /\ UNCHANGED <<run, config, args, image, sky, seed, originalMask, skyMask,
                   positions, catalog, warned, factor, bgLevel, background,
                   entryImage, entryMask, first>>
    /\ UNCHANGED callerVars

\* lines 239-244: the background re-estimated, the results returned
ReEstimate ==
    /\ pc = "ReEstimate"
    /\ IF config.reEstimateBackground
       THEN LET level == ReEstimatedLevel(image, mask)
            IN  /\ image' = SubtractLevel(image, level)
                /\ background' = Append(background, BgData(level))
       ELSE UNCHANGED <<image, background>>
    /\ pc' = "Done"
    /\ UNCHANGED <<run, config, args, mask, sky, seed, originalMask, skyMask,
                   positions, catalog, warned, factor, bgLevel, results, error,
                   entryImage, entryMask, first>>
    /\ UNCHANGED callerVars

\* the caller runs detectFootprints again on the same exposure, with the
\* same arguments
Rerun ==
    /\ pc = "Done"
    /\ run = 1
    /\ run' = 2
    /\ pc' = "Idle"
    /\ first' = [valid |-> TRUE, entryImage |-> entryImage, seed |-> seed,
                 positions |-> positions, factor |-> factor, bgLevel |-> bgLevel]
    /\ UNCHANGED <<config, args, image, mask, sky, seed, originalMask, skyMask,
                   positions, catalog, warned, factor, bgLevel, background,
                   results, error, entryImage, entryMask>>
    /\ UNCHANGED callerVars

Next ==
    \/ Start
    \/ PreliminaryDetect
    \/ Sampling
    \/ Measuring
    \/ Estimating
    \/ BackgroundTweak
    \/ FinalDetect
    \/ ReEstimate
    \/ Rerun

(***************************************************************************)
(* Initial states: an exposure, a scene, a configuration and the           *)
(* arguments of the call, each drawn from a bounded set.                   *)
(***************************************************************************)
\* no direct call of tweakBackground is under way
NoTweak == [step |-> 0, offset |-> <<>>, hasList |-> FALSE, entryList |-> <<>>,
            bgList |-> <<>>, returned |-> <<>>]

\* process_one is not running
NoConv == [pc |-> "Off", write |-> FALSE, run |-> 0, entryFile |-> <<>>,
           mapping |-> <<>>, mapped_fluxes |-> <<>>, status |-> <<>>,
           firstFile |-> <<>>]

NoFirst == [valid |-> FALSE, entryImage |-> <<>>, seed |-> 0, positions |-> <<>>,
            factor |-> Unset, bgLevel |-> Unset]

InitExposure(masks, images, scenes, configs, argss) ==
    /\ pc = "Idle"
    /\ run = 1
    /\ mask \in masks
    /\ image \in images
    /\ sky \in scenes
    /\ config \in configs
    /\ args \in argss
    /\ seed = 0
    /\ originalMask = NoMask
    /\ skyMask = NoMask
    /\ positions = <<>>
    /\ catalog = <<>>
    /\ warned = FALSE
    /\ factor = Unset
    /\ bgLevel = Unset
    /\ background = <<>>
    /\ results = NoResults
    /\ error = NoError
    /\ entryImage = image
    /\ entryMask = mask
    /\ first = NoFirst

\* detectFootprints is about to be called: no other caller is at work
InitWith(masks, images, scenes, configs, argss) ==
    /\ InitExposure(masks, images, scenes, configs, argss)
    /\ tweak = NoTweak
    /\ file = <<>>
    /\ conv = NoConv

\* what forced photometry reports at a sky position
SkyRecord(flux, area, bg, err, psfFlag, bgFlag) ==
    [flux |-> flux, area |-> area, bg |-> bg, err |-> err,
     psfFlag |-> psfFlag, bgFlag |-> bgFlag]

\* a scene whose measurements differ from pixel to pixel
GradedScene ==
    [p \in Pixels |-> SkyRecord(R(4 * p), R(2), R(0), <<741, 200>>, FALSE, FALSE)]

\* an empty image but for pixel 1, which holds v
ImageWith(v) == [p \in Pixels |-> IF p = 1 THEN v ELSE R(0)]

\* pixel values below the preliminary threshold, between the two thresholds
\* (for a factor of 1), beyond both, and beyond the negative ones
SourceValues == {R(0), R(3), R(40), R(-40)}

InitBits == {{}, {"DETECTED"}, {"DETECTED_NEGATIVE", "BAD"}}

Init ==
    InitWith([Pixels -> InitBits],
             {ImageWith(v) : v \in SourceValues},
             {GradedScene},
             [doBackgroundTweak : BOOLEAN, minNumSources : {2},
              reEstimateBackground : BOOLEAN,
              thresholdPolarity : {"positive", "both"}],
             [clearMask : BOOLEAN, expId : {NoExpId, <<0, 7>>}])

Spec == Init /\ [][Next]_vars

(***************************************************************************)
(* Initial states for the statistics: scenes drawn from a palette of sky   *)
(* records, on an empty image of which the first k pixels are free.        *)
(***************************************************************************)
SkyA == SkyRecord(R(4), R(2), R(0), <<741, 200>>, FALSE, FALSE)

SkyB == SkyRecord(R(16), R(2), R(2), <<741, 200>>, FALSE, FALSE)

\* a measurement whose uncertainty is zero
SkyZeroErr == SkyRecord(R(8), R(1), R(0), R(0), FALSE, FALSE)

\* a measurement whose uncertainty is not a number
SkyNaNErr == SkyRecord(R(6), R(1), R(0), NaN, FALSE, FALSE)

\* a failed PSF-flux measurement
SkyPsfFlagged == SkyRecord(R(100), R(1), R(0), R(50), TRUE, FALSE)

\* a failed local-background measurement
SkyBgFlagged == SkyRecord(R(-60), R(1), R(0), R(50), FALSE, TRUE)

\* a measurement whose local background is not finite
SkyBgInf == SkyRecord(R(90), R(1), PInf, R(50), FALSE, FALSE)

Palette == {SkyA, SkyB, SkyZeroErr, SkyNaNErr, SkyPsfFlagged, SkyBgFlagged, SkyBgInf}

FreeMask(k) == [p \in Pixels |-> IF p <= k THEN {} ELSE {"BAD"}]

InitEstimate ==
    \E k \in 0..NPix :
        InitWith({FreeMask(k)},
                 {ImageWith(R(0))},
                 {s \in [Pixels -> Palette] : \A p \in Pixels : p > k => s[p] = SkyA},
                 [doBackgroundTweak : {TRUE}, minNumSources : 0..MaxMinNumSources,
                  reEstimateBackground : {FALSE},
              thresholdPolarity : {"both"}],
                 [clearMask : {TRUE}, expId : {<<0, 7>>}])

SpecEstimate == InitEstimate /\ [][Next]_vars

(***************************************************************************)
(* Initial states for the seed: expId from zero, negative and large        *)
(* integers, pixel values with fractions, negative values and NaN.         *)
(***************************************************************************)
\* 0, 7, -1, -5, 2^31-2, 2^31-1, 2^31, 2^32+7, -2^31
ExpIds ==
    {<<0, 0>>, <<0, 7>>, <<-1, SeedModulus>>, <<-1, SeedModulus - 4>>,
     <<0, SeedModulus - 1>>, <<0, SeedModulus>>, <<1, 0>>, <<2, 7>>, <<-1, 0>>}

SeedPixelValues == {R(0), <<3, 2>>, <<-5, 2>>, R(20000000), NaN}

InitSeed ==
    InitWith({FreeMask(NPix)},
             [Pixels -> SeedPixelValues],
             {GradedScene},
             [doBackgroundTweak : {TRUE}, minNumSources : {minNumSourcesDefault},
              reEstimateBackground : {TRUE},
              thresholdPolarity : {"both"}],
             [clearMask : {FALSE}, expId : ExpIds \cup {NoExpId}])

SpecSeed == InitSeed /\ [][Next]_vars

(***************************************************************************)
(* A caller of tweakBackground: an offset, then the opposite offset, on    *)
(* the same exposure and the same list (or with no list).                  *)
(***************************************************************************)
\* tweakBackground(exposure, d, bgList)
TweakCall ==
    /\ tweak.step = 1
    /\ LET t == TweakBackground(image, tweak.offset, tweak.bgList, tweak.hasList)
       IN  /\ image' = t.image
           /\ tweak' = [tweak EXCEPT !.step = 2, !.bgList = t.bgList,
                                     !.returned = Append(@, t.bg)]
    /\ UNCHANGED <<pc, run, config, args, mask, sky, seed, originalMask, skyMask,
                   positions, catalog, warned, factor, bgLevel, background,
                   results, error, entryImage, entryMask, first, file, conv>>

\* tweakBackground(exposure, -d, bgList)
TweakBack ==
    /\ tweak.step = 2
    /\ LET t == TweakBackground(image, Neg(tweak.offset), tweak.bgList, tweak.hasList)
       IN  /\ image' = t.image
           /\ tweak' = [tweak EXCEPT !.step = 3, !.bgList = t.bgList,
                                     !.returned = Append(@, t.bg)]
    /\ UNCHANGED <<pc, run, config, args, mask, sky, seed, originalMask, skyMask,
                   positions, catalog, warned, factor, bgLevel, background,
                   results, error, entryImage, entryMask, first, file, conv>>

NextTweak ==
    \/ TweakCall
    \/ TweakBack

\* 2^25: one digit more than a pixel holds next to a unit
BigOffset == R(2 * Pow2(PixelBits))

TweakPixelValues == {R(0), R(1), <<3, 2>>, R(-7), NaN}

TweakOffsets == {R(0), R(3), <<-5, 2>>, BigOffset, Neg(BigOffset), PInf, NInf, NaN}

\* the list the caller holds: empty, or with a term of an earlier fit
TweakLists == {<<>>, <<BgData(R(1))>>}

InitTweak ==
    /\ InitExposure({FreeMask(NPix)}, [Pixels -> TweakPixelValues], {GradedScene},
                    [doBackgroundTweak : {TRUE}, minNumSources : {minNumSourcesDefault},
                     reEstimateBackground : {FALSE},
              thresholdPolarity : {"both"}],
                    [clearMask : {TRUE}, expId : {NoExpId}])
    /\ \E d \in TweakOffsets, h \in BOOLEAN, l \in TweakLists :
          tweak = [step |-> 1, offset |-> d, hasList |-> h, entryList |-> l,
                   bgList |-> l, returned |-> <<>>]
    /\ file = <<>>
    /\ conv = NoConv

SpecTweak == InitTweak /\ [][NextTweak]_vars

(***************************************************************************)
(* convert_refcat_to_nJy.py: process_one on one catalog file.  A name is   *)
(* the sequence of its characters; a file is the sequence of its fields,   *)
(* each with a name, its units and the value of its column.                *)
(***************************************************************************)
MaxFields == 2

FluxSuffix == <<"_", "f", "l", "u", "x">>

SigmaSuffix == FluxSuffix \o <<"S", "i", "g", "m", "a">>

ErrSuffix == FluxSuffix \o <<"E", "r", "r">>

\* str.endswith
EndsWith(name, suffix) ==
    /\ Len(name) >= Len(suffix)
    /\ SubSeq(name, Len(name) - Len(suffix) + 1, Len(name)) = suffix

RECURSIVE LStrip(_, _)
LStrip(name, chars) ==
    IF name # <<>> /\ Head(name) \in chars THEN LStrip(Tail(name), chars) ELSE name

RECURSIVE RStrip(_, _)
RStrip(name, chars) ==
    IF name # <<>> /\ name[Len(name)] \in chars
    THEN RStrip(SubSeq(name, 1, Len(name) - 1), chars) ELSE name

\* str.strip(chars): the characters of chars removed from both ends
Strip(name, chars) == RStrip(LStrip(name, chars), chars)

\* the characters of the argument of strip at line 77
SigmaChars == {SigmaSuffix[k] : k \in 1..Len(SigmaSuffix)}

\* lines 57-62 (oldUnits there is the units of the field being tested)
is_flux_field(name, units) ==
    LET unitsCheck == units = "Jy" \/ units = "" \/ units = "?"
        isFlux == EndsWith(name, FluxSuffix)
        isFluxSigma == EndsWith(name, SigmaSuffix)
        isFluxErr == EndsWith(name, ErrSuffix)
    IN  (isFlux \/ isFluxSigma \/ isFluxErr) /\ unitsCheck

\* lines 76-79: the name of the new field
NewName(oldName) ==
    IF EndsWith(oldName, SigmaSuffix)
    THEN Strip(oldName, SigmaChars) \o ErrSuffix
    ELSE oldName

\* lines 69-84: the output field each field of the schema is mapped to
Mapping(fields) ==
    [k \in 1..Len(fields) |->
        IF is_flux_field(fields[k].name, fields[k].units)
        THEN [name |-> NewName(fields[k].name), units |-> "nJy", value |-> fields[k].value]
        ELSE fields[k]]

RECURSIVE MappedFluxes(_)
\* lines 68, 82: mapped_fluxes
MappedFluxes(fields) ==
    IF fields = <<>> THEN <<>>
    ELSE (IF is_flux_field(Head(fields).name, Head(fields).units)
          THEN <<<<Head(fields).name, Head(fields).units>>>> ELSE <<>>)
         \o MappedFluxes(Tail(fields))

\* the output schema cannot hold two fields of one name: addMapping raises
NameClash(fields) ==
    \E k, l \in 1..Len(fields) : k # l /\ fields[k].name = fields[l].name

\* a column value m * (10^9)^e is the pair <<m, e>>, zero is <<0, 0>> and
\* NaN is <<0, -1>>; output[field.key] *= 1e9
Times1e9(v) == IF v[1] = 0 THEN v ELSE <<v[1], v[2] + 1>>

\* lines 94-100: the output catalog, the columns of every field named
\* ..._flux or ..._fluxErr multiplied by 1e9
Output(fields) ==
    LET out == Mapping(fields)
    IN  [k \in 1..Len(out) |->
            IF EndsWith(out[k].name, FluxSuffix) \/ EndsWith(out[k].name, ErrSuffix)
            THEN [out[k] EXCEPT !.value = Times1e9(@)]
            ELSE out[k]]

\* lines 53-84: the file is read and the mapper built
ConvertMap ==
    /\ conv.pc = "Ready"
    /\ conv' = [conv EXCEPT
                  !.pc = IF NameClash(Mapping(file)) THEN "Failed" ELSE "Mapped",
                  !.entryFile = file,
                  !.mapping = Mapping(file),
                  !.mapped_fluxes = MappedFluxes(file),
                  !.status = <<"Reading">>]
    /\ UNCHANGED file
    /\ UNCHANGED taskVars

\* lines 86-105: nothing to map, or the fields reported and, with write, the
\* file overwritten
ConvertWrite ==
    /\ conv.pc = "Mapped"
    /\ IF conv.mapped_fluxes = <<>>
       THEN /\ conv' = [conv EXCEPT !.pc = "Returned",
                                    !.status = Append(@, "No fluxes to map")]
            /\ UNCHANGED file
       ELSE IF conv.write
       THEN /\ conv' = [conv EXCEPT !.pc = "Returned",
                                    !.status = @ \o <<"Found flux fields", "Wrote">>]
            /\ file' = Output(file)
       ELSE /\ conv' = [conv EXCEPT !.pc = "Returned",
                                    !.status = Append(@, "Found flux fields")]
            /\ UNCHANGED file
    /\ UNCHANGED taskVars

\* the script is run on the directory a second time
ConvertAgain ==
    /\ conv.pc = "Returned"
    /\ conv.run = 1
    /\ conv' = [conv EXCEPT !.pc = "Ready", !.run = 2, !.firstFile = file]
    /\ UNCHANGED file
    /\ UNCHANGED taskVars

NextConvert ==
    \/ ConvertMap
    \/ ConvertWrite
    \/ ConvertAgain

\* a field
Field(name, units, value) == [name |-> name, units |-> units, value |-> value]

\* fields of old catalogs: fluxes and their errors under the three old
\* units and under nJy, prefixes made of characters inside and outside
\* "_fluxSigma", and a field that is no flux
FieldPalette ==
    {Field(<<"r">> \o FluxSuffix, "Jy", <<3, 0>>),
     Field(<<"r">> \o FluxSuffix, "nJy", <<3, 0>>),
     Field(<<"z">> \o FluxSuffix, "", <<0, 0>>),
     Field(<<"r">> \o ErrSuffix, "", <<2, 0>>),
     Field(<<"r">> \o ErrSuffix, "nJy", <<2, 0>>),
     Field(<<"r">> \o SigmaSuffix, "?", <<2, 0>>),
     Field(<<"r">> \o SigmaSuffix, "nJy", <<2, 0>>),
     Field(<<"g">> \o SigmaSuffix, "Jy", <<2, 0>>),
     Field(<<"r", "g">> \o SigmaSuffix, "Jy", <<0, -1>>),
     Field(<<"g", "r">> \o SigmaSuffix, "", <<2, 0>>),
     Field(<<"i", "d">>, "", <<7, 0>>)}

\* the catalogs: up to MaxFields fields of different names
Files ==
    UNION {{f \in [1..n -> FieldPalette] :
                \A k, l \in 1..n : k # l => f[k].name # f[l].name} : n \in 0..MaxFields}

InitConvert ==
    /\ InitExposure({FreeMask(NPix)}, {ImageWith(R(0))}, {GradedScene},
                    [doBackgroundTweak : {TRUE}, minNumSources : {minNumSourcesDefault},
                     reEstimateBackground : {FALSE}, thresholdPolarity : {"both"}],
                    [clearMask : {TRUE}, expId : {NoExpId}])
    /\ tweak = NoTweak
    /\ file \in Files
    /\ \E w \in BOOLEAN : conv = [NoConv EXCEPT !.pc = "Ready", !.write = w, !.run = 1]

SpecConvert == InitConvert /\ [][NextConvert]_vars



(***************************************************************************)
(* Properties.                                                             *)
(***************************************************************************)
DetectionBits(m) == [p \in Pixels |-> m[p] \cap DetectionPlanes]

OtherBits(m) == [p \in Pixels |-> m[p] \ DetectionPlanes]

ExpIdGiven == args.expId # NoExpId

\* C1 as stated: the DETECTED/DETECTED_NEGATIVE bits of the mask handed to
\* the sky-object sampler equal those the mask held when the call started.
C1_SamplerSeesSnapshotBits ==
    skyMask # NoMask => DetectionBits(skyMask) = DetectionBits(entryMask)

\* C1 (amended): the mask handed to the sky-object sampler is the one the
\* preliminary pass left: the other planes as on entry, and a detection bit
\* set exactly where the preliminary footprints lie.  The mask stays so
\* until calculateThreshold has returned; it equals the snapshot again when
\* BackgroundTweak starts.
C1_SamplerSeesPreliminaryMask ==
    /\ skyMask # NoMask =>
          /\ OtherBits(skyMask) = OtherBits(entryMask)
          /\ \A p \in Pixels :
                /\ "DETECTED" \in skyMask[p]
                      <=> p \in Detect(entryImage, prelimThresholdFactor).positive
                /\ "DETECTED_NEGATIVE" \in skyMask[p]
                      <=> p \in Detect(entryImage, prelimThresholdFactor).negative
    /\ pc \in {"Measuring", "Estimating"} => mask = skyMask
    /\ pc = "BackgroundTweak" => mask = entryMask

\* the sampler has run on a mask in which the preliminary pass both cleared
\* a detection bit set on entry and set one that was clear
C1_Witness ==
    /\ pc = "Measuring"
    /\ \E p \in Pixels : "DETECTED" \in entryMask[p] /\ "DETECTED" \notin skyMask[p]
    /\ \E q \in Pixels : "DETECTED" \notin entryMask[q] /\ "DETECTED" \in skyMask[q]

\* C2: when the preliminary phase has been left, by its normal end or by an
\* exception of one of its calls, the whole mask equals the mask on entry;
\* a failed call has its exception with the caller.
C2_MaskRestoredOnLeavingPreliminary ==
    /\ (pc = "BackgroundTweak" \/ (pc = "Failed" /\ error.phase = "preliminary"))
          => mask = entryMask
    /\ pc = "Failed" => error.call # ""
    /\ error.phase = "preliminary" =>
          /\ pc = "Failed"
          /\ error.call \in {"clearMask", "convolveImage", "applyThreshold",
                             "finalizeFootprints", "skyObjects", "skyMeasurement",
                             "IndexError"}

\* forced photometry raised while the mask differed from the snapshot, and
\* the caller holds the exception and the restored mask
C2_Witness ==
    /\ pc = "Failed"
    /\ error = Raised("preliminary", "skyMeasurement")
    /\ skyMask # entryMask
    /\ mask = entryMask
    /\ \E p \in Pixels : "BAD" \in mask[p]

\* C8 as stated: the offset is subtracted only when doBackgroundTweak is
\* set, and its background term is in the list in both cases.
C8_TermAppendedInBothCases ==
    pc = "FinalDetect" =>
        /\ \A p \in Pixels :
              image[p] = IF config.doBackgroundTweak
                         THEN Sub(entryImage[p], bgLevel) ELSE entryImage[p]
        /\ Len(background) = 1
        /\ background[1].value = bgLevel

\* C8 (amended): with doBackgroundTweak set the offset is subtracted from
\* every pixel and the list holds one term, of that value; with it unset
\* the image is untouched and the list is empty.
C8_TermAppendedOnlyWhenTweaking ==
    pc = "FinalDetect" =>
        IF config.doBackgroundTweak
        THEN /\ \A p \in Pixels : image[p] = Sub(entryImage[p], bgLevel)
             /\ Len(background) = 1
             /\ background[1].value = bgLevel
        ELSE /\ image = entryImage
             /\ background = <<>>

\* a non-zero offset was computed with doBackgroundTweak unset: no term
C8_Witness ==
    /\ pc = "FinalDetect"
    /\ ~config.doBackgroundTweak
    /\ IsFinite(bgLevel) /\ ~IsZero(bgLevel)
    /\ background = <<>>
    /\ image = entryImage

\* C9 as stated: the second call on the exposure, with the same expId,
\* samples the same positions and computes the same correction as the first.
C9_SecondCallSameOutcome ==
    (run = 2 /\ ExpIdGiven /\ pc = "BackgroundTweak") =>
        /\ positions = first.positions
        /\ factor = first.factor
        /\ bgLevel = first.bgLevel

\* C9 (amended): the second call has the same seed, and it samples the same
\* positions and computes the same correction when its image is the image
\* the first call started from.
C9_SecondCallSameOutcomeFromSameImage ==
    (run = 2 /\ ExpIdGiven) =>
        /\ seed = first.seed
        /\ (pc = "BackgroundTweak" /\ entryImage = first.entryImage) =>
              /\ positions = first.positions
              /\ factor = first.factor
              /\ bgLevel = first.bgLevel

\* a second call from an unchanged image, with a correction computed from
\* sampled positions, on a mask the first call has changed
C9_Witness ==
    /\ run = 2
    /\ ExpIdGiven
    /\ pc = "BackgroundTweak"
    /\ entryImage = first.entryImage
    /\ ~warned
    /\ Len(positions) >= 2
    /\ \E p \in Pixels : "DETECTED" \in entryMask[p]

(***************************************************************************)
(* The statistics as the claims state them, by ranks instead of sorting.   *)
(***************************************************************************)
\* the record passes the filter
Passes(r) ==
    /\ r.psfFlag = FALSE
    /\ r.bgFlag = FALSE
    /\ r.instFlux \notin {NaN, PInf, NInf}
    /\ r.area \notin {NaN, PInf, NInf}
    /\ r.localBg \notin {NaN, PInf, NInf}

Passing == {i \in 1..Len(catalog) : Passes(catalog[i])}

NumPassing == Cardinality(Passing)

\* the k-th smallest of the values v[i], i in I (none of them NaN)
Kth(I, v, k) ==
    CHOOSE x \in {v[i] : i \in I} :
        /\ Cardinality({i \in I : Less(v[i], x)}) < k
        /\ k <= Cardinality({i \in I : Leq(v[i], x)})

RankMedian(I, v) ==
    LET n == Cardinality(I)
    IN  IF n = 0 \/ \E i \in I : v[i] = NaN THEN NaN
        ELSE IF n % 2 = 1 THEN Kth(I, v, (n + 1) \div 2)
        ELSE Div(Add(Kth(I, v, n \div 2), Kth(I, v, n \div 2 + 1)), R(2))

\* the q-th percentile (q = 25 or 75) at rank 1 + q/100*(n-1), interpolated
RankPercentile(I, v, q) ==
    LET n == Cardinality(I)
        k == (q \div 25) * (n - 1)
        lo == k \div 4 + 1
    IN  IF n = 0 \/ \E i \in I : v[i] = NaN THEN NaN
        ELSE IF k % 4 = 0 THEN Kth(I, v, lo)
        ELSE Add(Mul(<<4 - (k % 4), 4>>, Kth(I, v, lo)), Mul(<<(k % 4), 4>>, Kth(I, v, lo + 1)))

FluxPerArea == [i \in 1..Len(catalog) |-> Div(catalog[i].instFlux, catalog[i].area)]

BgSubtractedFlux ==
    [i \in 1..Len(catalog) |->
        Sub(catalog[i].instFlux, Mul(catalog[i].localBg, catalog[i].area))]

FluxErr == [i \in 1..Len(catalog) |-> catalog[i].instFluxErr]

\* the difference between the 75th and the 25th percentile
IQR == Sub(RankPercentile(Passing, BgSubtractedFlux, 75),
           RankPercentile(Passing, BgSubtractedFlux, 25))

\* calculateThreshold has returned a correction in this call
Corrected == pc \in {"BackgroundTweak", "FinalDetect", "ReEstimate", "Done"}
                \/ (pc = "Failed" /\ error.phase = "final")

\* calculateThreshold has returned or raised in its statistics
Estimated == Corrected \/ (pc = "Failed" /\ error.call = "IndexError")

\* the final pass has run, at thresholdValue * results.factor
FinalPassRan == pc \in {"ReEstimate", "Done"}

\* C3: with fewer passing records than minNumSources, calculateThreshold
\* warns and returns exactly {1, 0} without raising, and the final pass,
\* when it has run, used the factor 1.
C3_TooFewGivesIdentity ==
    (Estimated /\ NumPassing < config.minNumSources) =>
        /\ Corrected
        /\ warned
        /\ factor = R(1)
        /\ bgLevel = R(0)
        /\ FinalPassRan => results.factor = R(1)

\* every record of a catalog of two or more is flagged or not finite, and
\* the run is done
C3_Witness ==
    /\ pc = "Done"
    /\ Len(catalog) >= 2
    /\ NumPassing = 0
    /\ \E i \in 1..Len(catalog) : catalog[i].psfFlag
    /\ config.minNumSources = 2
    /\ warned
    /\ results.factor = R(1)

\* C4: when the sampler returned no position, whatever minNumSources is,
\* the catalog is empty, the correction is {1, 0} and nothing was raised.
C4_NoPositionsGivesIdentity ==
    (Estimated /\ positions = <<>>) =>
        /\ catalog = <<>>
        /\ Corrected
        /\ factor = R(1)
        /\ bgLevel = R(0)

\* the robust standard deviation 0.741*IQR is zero or not finite
DegenerateSpread ==
    LET sd == Mul(<<741, 1000>>, IQR)
    IN  sd[2] = 0 \/ sd[1] = 0

\* C5: with enough passing records and a zero or non-finite robust standard
\* deviation, the final pass is never run on the resulting factor.
C5_DegenerateSpreadSurfaced ==
    ~(FinalPassRan /\ NumPassing >= config.minNumSources /\ DegenerateSpread)

PositiveFinite(x) == x[2] # 0 /\ x[1] > 0

NonZeroFinite(x) == x[2] # 0 /\ x[1] # 0

\* C6 as stated: with enough passing records and a non-zero interquartile
\* range the factor is strictly positive and finite; with too few it is 1.
C6_FactorPositiveFinite ==
    Corrected =>
        /\ (NumPassing >= config.minNumSources /\ NumPassing > 0 /\ NonZeroFinite(IQR))
              => PositiveFinite(factor)
        /\ NumPassing < config.minNumSources => factor = R(1)

\* C6 (amended): the same, provided the median flux uncertainty of the
\* passing records is itself finite and strictly positive.
C6_FactorPositiveFiniteGivenPositiveError ==
    Corrected =>
        /\ (/\ NumPassing >= config.minNumSources /\ NumPassing > 0
            /\ NonZeroFinite(IQR)
            /\ PositiveFinite(RankMedian(Passing, FluxErr)))
              => PositiveFinite(factor)
        /\ NumPassing < config.minNumSources => factor = R(1)

\* a factor computed from three passing records, one of them with a zero
\* uncertainty, whose median uncertainty is positive
C6_Witness ==
    /\ Corrected
    /\ NumPassing = 3
    /\ config.minNumSources = 2
    /\ NonZeroFinite(IQR)
    /\ \E i \in Passing : catalog[i].instFluxErr = R(0)
    /\ PositiveFinite(RankMedian(Passing, FluxErr))
    /\ PositiveFinite(factor)

\* the correction the claim C7 describes, for the constant c
CorrectionWith(c) ==
    [additive |-> RankMedian(Passing, FluxPerArea),
     multiplicative |-> Div(RankMedian(Passing, FluxErr), Mul(c, IQR))]

\* C7 as stated: additive is the median of flux/area and multiplicative the
\* median uncertainty over 0.7413 times the interquartile range of
\* flux - background*area, all over the passing records only.
C7_CorrectionWith7413 ==
    (Corrected /\ NumPassing >= config.minNumSources) =>
        [additive |-> bgLevel, multiplicative |-> factor] = CorrectionWith(<<7413, 10000>>)

\* C7 (amended): the same with the constant 0.741.
C7_CorrectionWith741 ==
    (Corrected /\ NumPassing >= config.minNumSources) =>
        [additive |-> bgLevel, multiplicative |-> factor] = CorrectionWith(<<741, 1000>>)

\* a catalog of three with a flagged outlier: the two passing records give
\* the factor 1.25
C7_Witness ==
    /\ Corrected
    /\ Len(catalog) = 3
    /\ NumPassing = 2
    /\ \E i \in 1..Len(catalog) : catalog[i].psfFlag
    /\ factor = <<5, 4>>
    /\ bgLevel = R(5)

(***************************************************************************)
(* The seed.                                                               *)
(***************************************************************************)
\* the seed of this call has been computed
SeedComputed == pc # "Idle" /\ error.phase # "setup"

\* the integer hi*2^31 + lo leaves the remainder r modulo 2^31 - 1
CongruentTo(x, r) ==
    LET a == (x[2] - r) % SeedModulus
        b == x[1] % SeedModulus
    IN  (a = 0 /\ b = 0) \/ (b # 0 /\ a = SeedModulus - b)

\* the sum of the pixels the call was entered with, truncated toward zero
TruncatedSum ==
    LET sum == ImageSum(entryImage)
        q == Abs(sum[1]) \div sum[2]
    IN  IF sum[1] < 0 THEN -q ELSE q

\* C10: the seed lies in 0 .. 2^31-2; with an expId it is expId mod
\* (2^31-1), whatever the pixels are, and without one it is the truncated
\* sum of the pixels mod (2^31-1).
C10_SeedInRange ==
    SeedComputed =>
        /\ seed \in 0..(SeedModulus - 1)
        /\ ExpIdGiven => CongruentTo(args.expId, seed)
        /\ ~ExpIdGiven => seed = TruncatedSum % SeedModulus

\* expId = 2^31 gives the seed 1 on an image whose pixels do not sum to it
C10_Witness ==
    /\ SeedComputed
    /\ args.expId = <<1, 0>>
    /\ seed = 1
    /\ ImageSum(entryImage) = <<-5, 2>>

(***************************************************************************)
(* tweakBackground with an offset and then the opposite offset.            *)
(***************************************************************************)
\* both calls have returned
TweakedTwice == tweak.step = 3

\* the values of the last two terms of the list add up to zero
LastTwoSumToZero ==
    LET n == Len(tweak.bgList)
    IN  n >= 2 /\ Add(tweak.bgList[n - 1].value, tweak.bgList[n].value) = R(0)

\* the offset is finite and held exactly by the pixel type, and so is every
\* pixel less the offset
ExactOffset ==
    /\ IsFinite(tweak.offset)
    /\ Float32(tweak.offset) = tweak.offset
    /\ \A p \in Pixels :
          Float32(Sub(entryImage[p], tweak.offset)) = Sub(entryImage[p], tweak.offset)

\* C11 as stated: for every offset d, after tweakBackground(d) and
\* tweakBackground(-d) every pixel has its original value, a list that was
\* supplied has exactly two more terms, whose values sum to zero, and each
\* call returned its term, with or without a list.
C11_OppositeOffsetsRestore ==
    TweakedTwice =>
        /\ image = entryImage
        /\ tweak.returned = <<BgData(tweak.offset), BgData(Neg(tweak.offset))>>
        /\ tweak.hasList =>
              /\ tweak.bgList = tweak.entryList \o tweak.returned
              /\ LastTwoSumToZero

\* C11 (amended): each call returns its term and appends it to a list that
\* was supplied (and leaves alone the list that was not); the two values sum
\* to zero when the offset is finite, and every pixel has its original value
\* when the offset is finite and the subtraction is exact in the pixel type.
C11_OppositeOffsetsRestoreWhenExact ==
    TweakedTwice =>
        /\ tweak.returned = <<BgData(tweak.offset), BgData(Neg(tweak.offset))>>
        /\ tweak.hasList =>
              /\ tweak.bgList = tweak.entryList \o tweak.returned
              /\ IsFinite(tweak.offset) => LastTwoSumToZero
        /\ ~tweak.hasList => tweak.bgList = tweak.entryList
        /\ ExactOffset => image = entryImage

\* the offset -5/2 and back on an image with a fractional and a negative
\* pixel, with a list that already held a term
C11_Witness ==
    /\ TweakedTwice
    /\ tweak.offset = <<-5, 2>>
    /\ tweak.hasList
    /\ Len(tweak.entryList) = 1
    /\ Len(tweak.bgList) = 3
    /\ entryImage[1] = <<3, 2>>
    /\ entryImage[2] = R(-7)
    /\ image = entryImage

(***************************************************************************)
(* Failures of the collaborators.                                          *)
(***************************************************************************)
\* smoothing, footprint extraction and forced measurement
Upstream == {"convolveImage", "applyThreshold", "finalizeFootprints", "skyMeasurement"}

\* the run has ended with an exception raised by one of them
UpstreamFailed == pc = "Failed" /\ error.call \in Upstream

\* the phase of the run in which the exception was raised
FailedPhase ==
    IF error.phase = "final" THEN "FinalDetect"
    ELSE IF error.call = "skyMeasurement" THEN "Measuring"
    ELSE "PreliminaryDetect"

\* the names the exception carries to the caller: its traceback, that is the
\* functions on the stack when it was raised.  detectFootprints has no except
\* clause: the exception is the collaborator's own, unchanged.
Traceback ==
    {"detectFootprints", error.call}
        \cup (IF error.call = "skyMeasurement" THEN {"calculateThreshold"} ELSE {})

\* nothing of a phase after the failed one has happened
NoLaterPhase ==
    /\ results = NoResults
    /\ error.phase = "preliminary" =>
          /\ image = entryImage
          /\ background = <<>>
          /\ factor = Unset /\ bgLevel = Unset
    /\ error.phase = "final" =>
          Len(background) = (IF config.doBackgroundTweak THEN 1 ELSE 0)

\* C12 as stated: a failure of smoothing, footprint extraction or forced
\* measurement ends the run there, nothing is retried and no later phase
\* runs, and the exception carries the name of the phase that failed.
C12_FailureNamesPhase ==
    UpstreamFailed =>
        /\ ~ENABLED Next
        /\ NoLaterPhase
        /\ FailedPhase \in Traceback

\* C12 (amended): a run that failed reached the caller with an exception;
\* when a collaborator raised it the run ends there, nothing is retried, no
\* later phase runs, and the exception is the collaborator's own, naming the
\* functions on the stack and no phase.
C12_FailurePropagatesUnchanged ==
    pc = "Failed" =>
        /\ error # NoError
        /\ UpstreamFailed =>
              /\ ~ENABLED Next
              /\ NoLaterPhase
              /\ error.call \in Traceback
              /\ FailedPhase \notin Traceback

\* smoothing failed in the final pass, after the background was tweaked
C12_Witness ==
    /\ UpstreamFailed
    /\ error = Raised("final", "convolveImage")
    /\ config.doBackgroundTweak
    /\ Len(background) = 1
    /\ image # entryImage

(***************************************************************************)
(* The detection planes after the run.                                     *)
(***************************************************************************)
\* the detection bits the final pass set on pixel p and left there
FinalBits(p) ==
    (IF p \in results.positive THEN {"DETECTED"} ELSE {})
        \cup (IF p \in results.negative THEN {"DETECTED_NEGATIVE"} ELSE {})

\* the detection bits the preliminary pass set on pixel p
PreliminaryBits(p) ==
    (IF p \in Detect(entryImage, prelimThresholdFactor).positive
        THEN {"DETECTED"} ELSE {})
        \cup (IF p \in Detect(entryImage, prelimThresholdFactor).negative
                 THEN {"DETECTED_NEGATIVE"} ELSE {})

Selected(f) ==
    /\ f.units \in {"Jy", "", "?"}
    /\ \E suffix \in {FluxSuffix, SigmaSuffix, ErrSuffix} : EndsWith(f.name, suffix)

\* the name without its last n characters
DropLast(name, n) == SubSeq(name, 1, Len(name) - n)

\* process_one has built its mapping of the fields
FieldsMapped == conv.pc \in {"Mapped", "Returned", "Failed"}

\* process_one has returned from a run in write mode
WriteRunReturned == conv.pc = "Returned" /\ conv.write

\* C13: every selected field p + "_fluxSigma" is mapped to the field
\* p + "_fluxErr", whatever the characters of the prefix p.
C13_SigmaSuffixReplacedExactly ==
    FieldsMapped =>
        \A k \in 1..Len(conv.entryFile) :
            LET f == conv.entryFile[k]
            IN  (Selected(f) /\ EndsWith(f.name, SigmaSuffix)) =>
                    conv.mapping[k].name
                        = DropLast(f.name, Len(SigmaSuffix)) \o ErrSuffix

\* C15: after a run in write mode a column is 1e9 times what it was exactly
\* when its field was selected for conversion, and is unchanged otherwise;
\* after a second run the file is as the first run left it.
C15_OnlySelectedColumnsScaled ==
    WriteRunReturned =>
        /\ \A k \in 1..Len(conv.entryFile) :
              file[k].value = (IF Selected(conv.entryFile[k])
                               THEN Times1e9(conv.entryFile[k].value)
                               ELSE conv.entryFile[k].value)
        /\ conv.run = 2 => file = conv.firstFile

====
